---- MODULE Spec2Model ----
(***************************************************************************)
(* Model of nimble/host/src/ble_l2cap.c: the L2CAP channel pool and its    *)
(* lifecycle (ble_l2cap_init, ble_l2cap_chan_alloc, ble_l2cap_chan_free),  *)
(* the receive pipeline (ble_l2cap_rx, ble_l2cap_rx_payload), the transmit  *)
(* pipeline (ble_l2cap_tx), the effective MTU (ble_l2cap_chan_mtu) and the *)
(* header codec (ble_l2cap_parse_hdr, ble_l2cap_prepend_hdr).              *)
(*                                                                         *)
(* Functions the file calls but does not define (os_mempool, os_mbuf,      *)
(* the endian helpers, ble_hs_tx_data, ble_hs_conn_chan_find, the receive  *)
(* handlers) are modelled at their boundary, as the specification          *)
(* describes them.                                                         *)
(***************************************************************************)
EXTENDS Integers, Sequences, FiniteSets, TLC

VARIABLES
    ble_l2cap_chan_mem,     \* static void *ble_l2cap_chan_mem
    ble_l2cap_chan_pool,    \* static struct os_mempool ble_l2cap_chan_pool
    heap,                   \* the malloc'ed blocks not yet passed to free()
    chans,                  \* the struct ble_l2cap_chan stored in each slot
    conn,                   \* the channels of the connection (ble_hs_conn)
    live,                   \* handles alloc returned since the last init call
                            \* and not freed since
    valid,                  \* the last init call succeeded
    mbufs,                  \* the mbufs in flight: bytes and disposal count
    rx_stack,               \* dispatches whose handler has not returned yet
    sent,                   \* frames handed to ble_hs_tx_data
    op,                     \* the last call: name, arguments, result
    held,                   \* handles alloc returned that no caller has freed
    codec,                  \* a header through the codec: fields, wire bytes
    aborted                 \* an assert() failed: the program has stopped

vars == <<ble_l2cap_chan_mem, ble_l2cap_chan_pool, heap, chans, conn, live,
          valid, mbufs, rx_stack, sent, op, held, codec, aborted>>

-----------------------------------------------------------------------------
(* Bounds of the model.                                                    *)

\* Slots of the channel pool.  The source sets 32 (ble_l2cap.c:30); the
\* model keeps the pool's logic and scales the number of slots down.
BLE_L2CAP_CHAN_MAX == 3

\* Distinct addresses malloc can return for the pool's backing storage.
NumMem == 2

\* mbufs that can be in flight at once.
MaxBufs == 3

\* Channels registered on the connection the pipelines run on.
NumConnChans == 2

\* Longest payload handed to ble_l2cap_tx.
MaxPayload == 3
\* Calls of ble_l2cap_rx in progress at once: one from the host task and
\* those made from within a running handler.
MaxDepth == 2

-----------------------------------------------------------------------------
(* Program constants.                                                      *)

NULL == 0

ENOENT == 2
ENOMEM == 12
EINVAL == 22
EMSGSIZE == 90

BLE_L2CAP_HDR_SZ == 4

-----------------------------------------------------------------------------
(* mbufs and the header codec.                                             *)

BufIds == 1..MaxBufs

\* An mbuf chain: its bytes and how many times it has been disposed of
\* (os_mbuf_free_chain, or consumed by whoever it was handed to).
NoBuf == [used |-> FALSE, data |-> <<>>, frees |-> 0]
NewBuf(data) == [used |-> TRUE, data |-> data, frees |-> 0]

FreeIds(tbl) == {b \in BufIds : ~tbl[b].used}
FirstFree(tbl) == CHOOSE b \in FreeIds(tbl) : \A c \in FreeIds(tbl) : b <= c

\* os_mbuf_free_chain(om): does nothing for NULL.
os_mbuf_free_chain(tbl, om) ==
    IF om = NULL THEN tbl ELSE [tbl EXCEPT ![om].frees = @ + 1]

\* os_mbuf_copydata(om, off, len, dst): nonzero when the chain holds fewer
\* than off + len bytes.
os_mbuf_copydata(data, off, len) ==
    IF off + len > Len(data)
    THEN [rc |-> -1, bytes |-> <<>>]
    ELSE [rc |-> 0, bytes |-> SubSeq(data, off + 1, off + len)]

\* os_mbuf_adj(om, n), n > 0: trims n bytes from the front of the chain.
os_mbuf_adj(data, n) ==
    IF n >= Len(data) THEN <<>> ELSE SubSeq(data, n + 1, Len(data))

le16toh(b) == b[1] + 256 * b[2]
htole16(v) == <<v % 256, (v \div 256) % 256>>

\* ble_l2cap_parse_hdr reading the two fields in the wrong order.
ble_l2cap_parse_hdr_swapped(data, off) ==
    LET c == os_mbuf_copydata(data, off, BLE_L2CAP_HDR_SZ)
    IN  IF c.rc # 0
        THEN [rc |-> EMSGSIZE, blh_len |-> 0, blh_cid |-> 0]
        ELSE [rc |-> 0,
              blh_len |-> le16toh(SubSeq(c.bytes, 3, 4)),
              blh_cid |-> le16toh(SubSeq(c.bytes, 1, 2))]

ble_l2cap_parse_hdr(data, off) ==
    LET c == os_mbuf_copydata(data, off, BLE_L2CAP_HDR_SZ)
    IN  IF c.rc # 0
        THEN [rc |-> EMSGSIZE, blh_len |-> 0, blh_cid |-> 0]
        ELSE [rc |-> 0,
              blh_len |-> le16toh(SubSeq(c.bytes, 1, 2)),
              blh_cid |-> le16toh(SubSeq(c.bytes, 3, 4))]

\* The struct ble_l2cap_hdr that ble_l2cap_prepend_hdr fills in and copies
\* to the front of the chain: blh_len, then blh_cid, each little-endian.
ble_l2cap_hdr_bytes(len, cid) == htole16(len) \o htole16(cid)

\* A header through the codec: the fields given, the 4 bytes written, and
\* the status and fields ble_l2cap_parse_hdr gets from them.
HdrRec(stage, len, cid, wire, rc, out_len, out_cid) ==
    [stage |-> stage, blh_len |-> len, blh_cid |-> cid, wire |-> wire,
     rc |-> rc, out_len |-> out_len, out_cid |-> out_cid]
NoHdr == HdrRec("none", 0, 0, <<>>, 0, 0, 0)

-----------------------------------------------------------------------------
(* Channel pool and lifecycle.                                             *)

Slots == 1..BLE_L2CAP_CHAN_MAX
MemIds == 1..NumMem

\* A struct ble_l2cap_chan *: the backing block and the slot in it.
NoChan == [mem |-> NULL, slot |-> NULL]
Handles == [mem : MemIds, slot : Slots]
\* A pointer that was never a block of any backing storage of this pool.
Foreign == [mem |-> NumMem + 1, slot |-> 1]

\* memset(chan, 0, sizeof *chan)
ZeroChan == [blc_cid |-> 0, blc_my_mtu |-> 0, blc_peer_mtu |-> 0,
             blc_default_mtu |-> 0, blc_flags |-> 0, blc_rx_fn |-> NULL,
             blc_rx_buf |-> NULL]

\* The pool of a program that never called init: static storage is zeroed.
ZeroPool == [membuf |-> NULL, free |-> <<>>]

RECURSIVE Iota(_, _)
Iota(a, b) == IF a > b THEN <<>> ELSE <<a>> \o Iota(a + 1, b)

SeqRange(s) == {s[i] : i \in 1..Len(s)}

\* os_mempool_init(mp, blocks, block_size, membuf, name) on success: every
\* block of membuf is on the free list.
os_mempool_init(blocks, membuf) ==
    [membuf |-> membuf, free |-> Iota(1, blocks)]

\* os_memblock_get(mp): the first block of the free list, NULL when empty.
os_memblock_get(mp) ==
    IF mp.free = <<>>
    THEN [block |-> NoChan, mp |-> mp]
    ELSE [block |-> [mem |-> mp.membuf, slot |-> Head(mp.free)],
          mp |-> [mp EXCEPT !.free = Tail(mp.free)]]

\* A block is live in the pool when it is a block of the pool's backing
\* storage that is not on the free list.
IsLive(mp, block) ==
    /\ mp.membuf # NULL
    /\ block.mem = mp.membuf
    /\ block.slot \in Slots
    /\ block.slot \notin SeqRange(mp.free)

\* os_memblock_put(mp, block): 0 and the block is back on the free list;
\* nonzero, the pool untouched, for a block that is not live in the pool.
os_memblock_put(mp, block) ==
    IF IsLive(mp, block)
    THEN [rc |-> 0, mp |-> [mp EXCEPT !.free = <<block.slot>> \o mp.free]]
    ELSE [rc |-> EINVAL, mp |-> mp]

\* ble_l2cap_free_mem: free(ble_l2cap_chan_mem); ble_l2cap_chan_mem = NULL.
\* free(NULL) does nothing.
ble_l2cap_free_mem(st) ==
    [mem |-> NULL, heap |-> st.heap \ {st.mem}]

\* The addresses malloc may return: NULL, or a block that is not allocated.
MallocResults(h) == {NULL} \cup (MemIds \ h)

\* ble_l2cap_init without the ble_l2cap_free_mem() it starts with: the
\* storage of an earlier init is never released.
ble_l2cap_init_result_noteardown(mem, hp, pool, addr, poolOk) ==
    LET s1 == [mem |-> addr,
               heap |-> IF addr = NULL THEN hp ELSE hp \cup {addr}]
    IN  IF addr = NULL
        THEN [rc |-> ENOMEM, st |-> ble_l2cap_free_mem(s1), pool |-> pool]
        ELSE IF ~poolOk
        THEN [rc |-> EINVAL, st |-> ble_l2cap_free_mem(s1), pool |-> pool]
        ELSE [rc |-> 0, st |-> s1,
              pool |-> os_mempool_init(BLE_L2CAP_CHAN_MAX, addr)]

\* ble_l2cap_init with the results of its two calls that may fail: addr is
\* what malloc returns, poolOk whether os_mempool_init returns 0.
ble_l2cap_init_result(mem, hp, pool, addr, poolOk) ==
    LET s0 == ble_l2cap_free_mem([mem |-> mem, heap |-> hp])
        s1 == [mem |-> addr,
               heap |-> IF addr = NULL THEN s0.heap ELSE s0.heap \cup {addr}]
    IN  IF addr = NULL
        THEN [rc |-> ENOMEM, st |-> ble_l2cap_free_mem(s1), pool |-> pool]
        ELSE IF ~poolOk
        THEN [rc |-> EINVAL, st |-> ble_l2cap_free_mem(s1), pool |-> pool]
        ELSE [rc |-> 0, st |-> s1,
              pool |-> os_mempool_init(BLE_L2CAP_CHAN_MAX, addr)]

\* What the last call was and what it returned.  site names the return
\* statement taken; om, frame, hdh_len, frees, seen, left and left_frees
\* describe a pipeline call and its mbuf, and are empty for a pool call;
\* full is FALSE for a receive call whose unit was a fragment, hrc is the
\* status the handler or the transport returned, prepend_ok is FALSE for a
\* transmit call whose os_mbuf_prepend failed.  prior is, for init, the
\* number of live channels before the call and, for alloc, 1 when the slot
\* returned held a channel with nonzero fields before the call.
CallRec(name, rc, h, site, frame, hdh_len, frees, seen, left, left_frees) ==
    [name |-> name, rc |-> rc, chan |-> h, site |-> site, frame |-> frame,
     hdh_len |-> hdh_len, frees |-> frees, seen |-> seen, left |-> left,
     left_frees |-> left_frees, full |-> TRUE, hrc |-> 0, prepend_ok |-> TRUE,
     prior |-> 0]

OpRec(name, rc, h) == CallRec(name, rc, h, "", <<>>, 0, 0, <<>>, "", 0)

RxTxVars == <<conn, mbufs, rx_stack, sent, codec>>

ble_l2cap_init(addr, poolOk) ==
    /\ ~aborted
    /\ addr \in MallocResults(heap \ {ble_l2cap_chan_mem})
    /\ LET r == ble_l2cap_init_result(ble_l2cap_chan_mem, heap,
                                      ble_l2cap_chan_pool, addr, poolOk)
       IN  /\ ble_l2cap_chan_mem' = r.st.mem
           /\ heap' = r.st.heap
           /\ ble_l2cap_chan_pool' = r.pool
           /\ valid' = (r.rc = 0)
           /\ op' = [OpRec("init", r.rc, NoChan)
                         EXCEPT !.prior = Cardinality(live)]
    /\ live' = {}
    /\ UNCHANGED <<chans, aborted, RxTxVars>>

\* A pool whose backing storage was released keeps its free-list head, but
\* the links between free blocks were stored in the released blocks: what a
\* get leaves behind is then any list the released bytes may spell.
StaleRest(mp) == {Tail(mp.free), <<>>}

\* ble_l2cap_chan_alloc without the memset: the slot keeps what it held.
ble_l2cap_chan_alloc_nomemset ==
    /\ ~aborted
    /\ LET g == os_memblock_get(ble_l2cap_chan_pool)
       IN  IF g.block = NoChan
           THEN /\ op' = OpRec("alloc", 0, NoChan)
                /\ UNCHANGED <<ble_l2cap_chan_pool, chans, live>>
           ELSE /\ \E rest \in IF ble_l2cap_chan_pool.membuf \in heap
                               THEN {g.mp.free}
                               ELSE StaleRest(ble_l2cap_chan_pool) :
                        ble_l2cap_chan_pool' = [g.mp EXCEPT !.free = rest]
                /\ UNCHANGED chans
                /\ live' = live \cup {g.block}
                /\ op' = [OpRec("alloc", 0, g.block) EXCEPT !.prior =
                              IF chans[g.block.slot] = ZeroChan THEN 0 ELSE 1]
    /\ UNCHANGED <<ble_l2cap_chan_mem, heap, valid, aborted, RxTxVars>>

ble_l2cap_chan_alloc ==
    /\ ~aborted
    /\ LET g == os_memblock_get(ble_l2cap_chan_pool)
       IN  IF g.block = NoChan
           THEN /\ op' = OpRec("alloc", 0, NoChan)
                /\ UNCHANGED <<ble_l2cap_chan_pool, chans, live>>
           ELSE /\ \E rest \in IF ble_l2cap_chan_pool.membuf \in heap
                               THEN {g.mp.free}
                               ELSE StaleRest(ble_l2cap_chan_pool) :
                        ble_l2cap_chan_pool' = [g.mp EXCEPT !.free = rest]
                /\ chans' = [chans EXCEPT ![g.block.slot] = ZeroChan]
                /\ live' = live \cup {g.block}
                /\ op' = [OpRec("alloc", 0, g.block) EXCEPT !.prior =
                              IF chans[g.block.slot] = ZeroChan THEN 0 ELSE 1]
    /\ UNCHANGED <<ble_l2cap_chan_mem, heap, valid, aborted, RxTxVars>>

\* The fields a channel's creator and the MTU exchange set.
DirtyChan == [ZeroChan EXCEPT !.blc_cid = 4, !.blc_my_mtu = 240,
                              !.blc_peer_mtu = 64, !.blc_default_mtu = 23,
                              !.blc_flags = 1, !.blc_rx_fn = 1]

\* The owner of a live channel writes its fields.
ChanWrite(chan) ==
    /\ ~aborted
    /\ chan \in live
    /\ IsLive(ble_l2cap_chan_pool, chan)
    /\ chan.mem \in heap
    /\ chans' = [chans EXCEPT ![chan.slot] = DirtyChan]
    /\ op' = OpRec("write", 0, chan)
    /\ UNCHANGED <<ble_l2cap_chan_mem, ble_l2cap_chan_pool, heap, live, valid,
                   aborted, RxTxVars>>

\* ble_l2cap_chan_free that forgets os_memblock_put: the slot never returns
\* to the free list.
ble_l2cap_chan_free_noput(chan) ==
    /\ ~aborted
    /\ live' = live \ {chan}
    /\ op' = OpRec("free", 0, chan)
    /\ UNCHANGED <<ble_l2cap_chan_pool, aborted>>
    /\ UNCHANGED <<ble_l2cap_chan_mem, heap, chans, valid, RxTxVars>>

\* ble_l2cap_chan_free without its assert(rc == 0): a failed put is ignored.
ble_l2cap_chan_free_noassert(chan) ==
    /\ ~aborted
    /\ IF chan = NoChan
       THEN /\ op' = OpRec("free", 0, chan)
            /\ UNCHANGED <<ble_l2cap_chan_pool, live, aborted>>
       ELSE LET p == os_memblock_put(ble_l2cap_chan_pool, chan)
            IN  /\ ble_l2cap_chan_pool' = p.mp
                /\ live' = IF p.rc = 0 THEN live \ {chan} ELSE live
                /\ op' = OpRec("free", p.rc, chan)
                /\ UNCHANGED aborted
    /\ UNCHANGED <<ble_l2cap_chan_mem, heap, chans, valid, RxTxVars>>

ble_l2cap_chan_free(chan) ==
    /\ ~aborted
    /\ IF chan = NoChan
       THEN /\ op' = OpRec("free", 0, chan)
            /\ UNCHANGED <<ble_l2cap_chan_pool, live, aborted>>
       ELSE LET p == os_memblock_put(ble_l2cap_chan_pool, chan)
            IN  /\ ble_l2cap_chan_pool' = p.mp
                /\ aborted' = (p.rc # 0)          \* assert(rc == 0)
                /\ live' = IF p.rc = 0 THEN live \ {chan} ELSE live
                /\ op' = OpRec("free", p.rc, chan)
    /\ UNCHANGED <<ble_l2cap_chan_mem, heap, chans, valid, RxTxVars>>

-----------------------------------------------------------------------------
(* Receive pipeline.                                                       *)

PoolVars == <<ble_l2cap_chan_mem, ble_l2cap_chan_pool, heap, live, valid,
              held, codec>>

\* ble_hs_conn_chan_find(conn, cid): the channel of the connection with
\* that cid, NULL when it has none.
ble_hs_conn_chan_find(cn, ch, cid) ==
    IF \E h \in cn : ch[h.slot].blc_cid = cid
    THEN CHOOSE h \in cn : ch[h.slot].blc_cid = cid
    ELSE NoChan

\* ble_l2cap_rx with the length check left out.
ble_l2cap_rx_decide_nolen(data, hdh_len, cn, ch) ==
    LET hdr == ble_l2cap_parse_hdr(data, 0)
        adj == os_mbuf_adj(data, BLE_L2CAP_HDR_SZ)
        chan == ble_hs_conn_chan_find(cn, ch, hdr.blh_cid)
    IN  IF hdr.rc # 0
        THEN [rc |-> hdr.rc, site |-> "parse", data |-> data, chan |-> NoChan]
        ELSE IF chan = NoChan
        THEN [rc |-> ENOENT, site |-> "find", data |-> adj, chan |-> NoChan]
        ELSE [rc |-> 0, site |-> "payload", data |-> adj, chan |-> chan]

\* ble_l2cap_rx with the channel looked up before the length is checked.
ble_l2cap_rx_decide_findfirst(data, hdh_len, cn, ch) ==
    LET hdr == ble_l2cap_parse_hdr(data, 0)
        adj == os_mbuf_adj(data, BLE_L2CAP_HDR_SZ)
        chan == ble_hs_conn_chan_find(cn, ch, hdr.blh_cid)
    IN  IF hdr.rc # 0
        THEN [rc |-> hdr.rc, site |-> "parse", data |-> data, chan |-> NoChan]
        ELSE IF chan = NoChan
        THEN [rc |-> ENOENT, site |-> "find", data |-> adj, chan |-> NoChan]
        ELSE IF hdr.blh_len # hdh_len - BLE_L2CAP_HDR_SZ
        THEN [rc |-> EMSGSIZE, site |-> "len", data |-> adj, chan |-> NoChan]
        ELSE [rc |-> 0, site |-> "payload", data |-> adj, chan |-> chan]

\* ble_l2cap_rx without os_mbuf_adj: the header stays in the mbuf.
ble_l2cap_rx_decide_noadj(data, hdh_len, cn, ch) ==
    LET hdr == ble_l2cap_parse_hdr(data, 0)
        chan == ble_hs_conn_chan_find(cn, ch, hdr.blh_cid)
    IN  IF hdr.rc # 0
        THEN [rc |-> hdr.rc, site |-> "parse", data |-> data, chan |-> NoChan]
        ELSE IF hdr.blh_len # hdh_len - BLE_L2CAP_HDR_SZ
        THEN [rc |-> EMSGSIZE, site |-> "len", data |-> data, chan |-> NoChan]
        ELSE IF chan = NoChan
        THEN [rc |-> ENOENT, site |-> "find", data |-> data, chan |-> NoChan]
        ELSE [rc |-> 0, site |-> "payload", data |-> data, chan |-> chan]

\* ble_l2cap_rx from ble_l2cap_parse_hdr to the channel lookup: the status
\* and the return statement reached ("payload": ble_l2cap_rx_payload is
\* called), the bytes left in the mbuf, and the channel found.
ble_l2cap_rx_decide(data, hdh_len, cn, ch) ==
    LET hdr == ble_l2cap_parse_hdr(data, 0)
        adj == os_mbuf_adj(data, BLE_L2CAP_HDR_SZ)
        chan == ble_hs_conn_chan_find(cn, ch, hdr.blh_cid)
    IN  IF hdr.rc # 0
        THEN [rc |-> hdr.rc, site |-> "parse", data |-> data, chan |-> NoChan]
        ELSE IF hdr.blh_len # hdh_len - BLE_L2CAP_HDR_SZ
        THEN [rc |-> EMSGSIZE, site |-> "len", data |-> adj, chan |-> NoChan]
        ELSE IF chan = NoChan
        THEN [rc |-> ENOENT, site |-> "find", data |-> adj, chan |-> NoChan]
        ELSE [rc |-> 0, site |-> "payload", data |-> adj, chan |-> chan]

\* ble_l2cap_rx with the assertion on the packet boundary flag left out.
ble_l2cap_rx_pb_assert_none(full) == TRUE

\* The first statement of ble_l2cap_rx:
\* assert(BLE_HCI_DATA_PB(hci_hdr->hdh_handle_pb_bc) == BLE_HCI_PB_FULL).
\* full: the flag says the unit is a complete frame.
ble_l2cap_rx_pb_assert(full) == full

\* ble_l2cap_rx(conn, hci_hdr, om) up to the call of the channel's handler.
ble_l2cap_rx(full, hdh_len, frame) ==
    /\ ~aborted
    /\ Len(rx_stack) < MaxDepth
    /\ FreeIds(mbufs) # {}
    /\ LET om == FirstFree(mbufs)
           d == ble_l2cap_rx_decide(frame, hdh_len, conn, chans)
           tbl == [mbufs EXCEPT ![om] = NewBuf(d.data)]
       IN  IF ~ble_l2cap_rx_pb_assert(full)
           THEN /\ aborted' = TRUE
                /\ op' = [CallRec("rx_abort", 0, NoChan, "assert_pb", frame,
                                  hdh_len, 0, <<>>, "", 0)
                              EXCEPT !.full = FALSE]
                /\ UNCHANGED <<mbufs, chans, rx_stack>>
           ELSE IF d.site # "payload"
           THEN \* returns d.rc; the caller has the mbuf again
                /\ op' = [CallRec("rx", d.rc, NoChan, d.site, frame, hdh_len,
                                  tbl[om].frees, <<>>, "", 0)
                              EXCEPT !.full = full]
                /\ UNCHANGED <<mbufs, chans, rx_stack, aborted>>
           ELSE IF chans[d.chan.slot].blc_rx_buf # NULL
           THEN \* ble_l2cap_rx_payload: assert(chan->blc_rx_buf == NULL)
                /\ aborted' = TRUE
                /\ op' = [CallRec("rx_abort", 0, d.chan, "assert_slot", frame,
                                  hdh_len, 0, <<>>, "", 0)
                              EXCEPT !.full = full]
                /\ UNCHANGED <<mbufs, chans, rx_stack>>
           ELSE \* chan->blc_rx_buf = om; chan->blc_rx_fn(conn, chan, &buf)
                /\ mbufs' = tbl
                /\ chans' = [chans EXCEPT ![d.chan.slot].blc_rx_buf = om]
                /\ rx_stack' = Append(rx_stack,
                       [chan |-> d.chan, om |-> om])
                /\ op' = [CallRec("rx_dispatch", 0, d.chan, d.site, frame,
                                  hdh_len, 0, d.data, "", 0)
                              EXCEPT !.full = full]
                /\ UNCHANGED aborted
    /\ UNCHANGED <<PoolVars, conn, sent>>

\* What a handler does with the mbuf in the slot it was given: keeps it
\* there, consumes it and empties the slot, or consumes it and puts another
\* mbuf in the slot.
HandlerEffects == {"keep", "take", "replace"}

HandlerEffect(tbl, om, eff) ==
    IF eff = "keep" THEN [tbl |-> tbl, buf |-> om]
    ELSE IF eff = "take"
    THEN [tbl |-> os_mbuf_free_chain(tbl, om), buf |-> NULL]
    ELSE LET n == FirstFree(tbl)
         IN  [tbl |-> [os_mbuf_free_chain(tbl, om) EXCEPT ![n] = NewBuf(<<>>)],
              buf |-> n]

\* The innermost running handler, which was given &chan->blc_rx_buf, takes
\* the mbuf out of the slot (*om = NULL) and consumes it, and runs on.
blc_rx_fn_take ==
    /\ ~aborted
    /\ rx_stack # <<>>
    /\ LET top == rx_stack[Len(rx_stack)]
           slot == top.chan.slot
           h == HandlerEffect(mbufs, top.om, "take")
       IN  /\ chans[slot].blc_rx_buf = top.om
           /\ mbufs' = h.tbl
           /\ chans' = [chans EXCEPT ![slot].blc_rx_buf = h.buf]
           /\ op' = CallRec("rx_fn_take", 0, top.chan, "handler", <<>>, 0,
                            h.tbl[top.om].frees, <<>>, "take", 0)
    /\ UNCHANGED <<PoolVars, conn, sent, rx_stack, aborted>>

\* ble_l2cap_rx_payload returning 0 whatever the handler returned.
ble_l2cap_rx_payload_cleanup_norc(tbl, buf, rc) ==
    [tbl |-> os_mbuf_free_chain(tbl, buf), blc_rx_buf |-> NULL, rc |-> 0]

\* ble_l2cap_rx_payload with the status tested before the slot is cleaned:
\* a failed handler's mbuf stays in the slot.
ble_l2cap_rx_payload_cleanup_late(tbl, buf, rc) ==
    IF rc # 0
    THEN [tbl |-> tbl, blc_rx_buf |-> buf, rc |-> rc]
    ELSE [tbl |-> os_mbuf_free_chain(tbl, buf), blc_rx_buf |-> NULL, rc |-> rc]

\* ble_l2cap_rx_payload after the handler returned rc with buf in the slot:
\* os_mbuf_free_chain(chan->blc_rx_buf); chan->blc_rx_buf = NULL; return rc.
ble_l2cap_rx_payload_cleanup(tbl, buf, rc) ==
    [tbl |-> os_mbuf_free_chain(tbl, buf), blc_rx_buf |-> NULL, rc |-> rc]

\* The handler of the innermost dispatch returns rc, and ble_l2cap_rx_payload
\* and ble_l2cap_rx return.
ble_l2cap_rx_payload_return(rc, eff) ==
    /\ ~aborted
    /\ rx_stack # <<>>
    /\ eff = "replace" => FreeIds(mbufs) # {}
    /\ LET top == rx_stack[Len(rx_stack)]
           slot == top.chan.slot
           h == HandlerEffect(mbufs, chans[slot].blc_rx_buf, eff)
           r == ble_l2cap_rx_payload_cleanup(h.tbl, h.buf, rc)
       IN  /\ chans' = [chans EXCEPT ![slot].blc_rx_buf = r.blc_rx_buf]
           /\ mbufs' = [b \in BufIds |->
                           IF b \in {top.om, h.buf} THEN NoBuf ELSE r.tbl[b]]
           /\ op' = [CallRec("rx_return", r.rc, top.chan, "payload", <<>>, 0,
                             r.tbl[top.om].frees, <<>>,
                             IF h.buf = NULL THEN "take" ELSE eff,
                             IF h.buf = NULL THEN 0 ELSE r.tbl[h.buf].frees)
                         EXCEPT !.hrc = rc]
           /\ rx_stack' = SubSeq(rx_stack, 1, Len(rx_stack) - 1)
    /\ UNCHANGED <<PoolVars, conn, sent, aborted>>

-----------------------------------------------------------------------------
(* Transmit pipeline.                                                      *)

\* os_mbuf_prepend(om, len): the chain with len more bytes in front, or
\* NULL; on failure the chain it was given is not disposed of.
os_mbuf_prepend(tbl, om, len, ok) ==
    IF ok
    THEN [om |-> om,
          tbl |-> [tbl EXCEPT ![om].data = [i \in 1..len |-> 0] \o @]]
    ELSE [om |-> NULL, tbl |-> tbl]

\* ble_l2cap_prepend_hdr reading omp_len after os_mbuf_prepend: the length
\* field counts the header too.
ble_l2cap_prepend_hdr_lenafter(tbl, om, cid, ok) ==
    LET p == os_mbuf_prepend(tbl, om, BLE_L2CAP_HDR_SZ, ok)
    IN  IF p.om = NULL
        THEN p
        ELSE [om |-> p.om,
              tbl |-> [p.tbl EXCEPT ![p.om].data =
                          ble_l2cap_hdr_bytes(Len(@) % 65536, cid)
                              \o os_mbuf_adj(@, BLE_L2CAP_HDR_SZ)]]

\* ble_l2cap_prepend_hdr(om, cid); ok: os_mbuf_prepend finds the memory.
ble_l2cap_prepend_hdr(tbl, om, cid, ok) ==
    LET hdr == ble_l2cap_hdr_bytes(Len(tbl[om].data) % 65536, cid)
        p == os_mbuf_prepend(tbl, om, BLE_L2CAP_HDR_SZ, ok)
    IN  IF p.om = NULL
        THEN p
        ELSE [om |-> p.om,
              tbl |-> [p.tbl EXCEPT ![p.om].data =
                          hdr \o os_mbuf_adj(@, BLE_L2CAP_HDR_SZ)]]

\* ble_hs_tx_data(om): the transport consumes the mbuf whatever it returns.
ble_hs_tx_data(tbl, om, rc) ==
    [rc |-> rc, tbl |-> os_mbuf_free_chain(tbl, om), frame |-> tbl[om].data]

\* ble_l2cap_tx(chan, om): the status returned, the mbufs afterwards and
\* the frames handed to the transport.
ble_l2cap_tx_result(tbl, om, cid, prependOk, sendRc) ==
    LET p == ble_l2cap_prepend_hdr(tbl, om, cid, prependOk)
    IN  IF p.om = NULL
        THEN [rc |-> ENOMEM, site |-> "prepend", sent |-> <<>>, hrc |-> 0,
              tbl |-> os_mbuf_free_chain(p.tbl, p.om)]
        ELSE LET t == ble_hs_tx_data(p.tbl, p.om, sendRc)
             IN  IF t.rc # 0
                 THEN [rc |-> t.rc, site |-> "send", sent |-> <<t.frame>>,
                       hrc |-> t.rc, tbl |-> os_mbuf_free_chain(t.tbl, p.om)]
                 ELSE [rc |-> 0, site |-> "ok", sent |-> <<t.frame>>,
                       hrc |-> t.rc, tbl |-> t.tbl]

ble_l2cap_tx(chan, payload, prependOk, sendRc) ==
    /\ ~aborted
    /\ FreeIds(mbufs) # {}
    /\ LET om == FirstFree(mbufs)
           r == ble_l2cap_tx_result([mbufs EXCEPT ![om] = NewBuf(payload)],
                                    om, chans[chan.slot].blc_cid,
                                    prependOk, sendRc)
       IN  /\ op' = [CallRec("tx", r.rc, chan, r.site, payload, 0,
                             r.tbl[om].frees, <<>>, "", 0)
                         EXCEPT !.hrc = r.hrc, !.prepend_ok = prependOk]
           /\ sent' = r.sent
    /\ UNCHANGED <<PoolVars, chans, conn, mbufs, rx_stack, aborted>>

-----------------------------------------------------------------------------
(* Inputs.                                                                 *)

RECURSIVE SeqsUpTo(_, _)
SeqsUpTo(S, n) ==
    IF n = 0 THEN {<<>>}
    ELSE LET shorter == SeqsUpTo(S, n - 1)
         IN  shorter \cup {Append(q, x) : q \in shorter, x \in S}

PayloadBytes == {170, 187}
TxPayloads == SeqsUpTo(PayloadBytes, MaxPayload)

\* Statuses a handler or the transport may return.
Statuses == {0, ENOMEM, EINVAL}

\* The cid of the channel in slot s of the connection.
ConnCid(s) == 3 + s

\* Header fields tried on the wire: lengths that need one byte and two, and
\* cids of the connection's channels, of no channel, and one whose bytes
\* swapped are a channel's.
RxLens == {0, 2, 258}
RxCids == {ConnCid(s) : s \in 1..NumConnChans}
              \cup {ConnCid(BLE_L2CAP_CHAN_MAX + 1), 1024}
RxPayloads == {<<>>, <<170, 187>>}
RxFrames ==
    {<<>>, <<2, 0, 4>>}
        \cup {htole16(l) \o htole16(c) \o p :
                 l \in RxLens, c \in RxCids, p \in RxPayloads}
RxHdhLens(frame) ==
    {Len(frame), 3} \cup
        (IF Len(frame) >= 2 THEN {le16toh(frame) + BLE_L2CAP_HDR_SZ} ELSE {})

ConnHandles == {[mem |-> 1, slot |-> s] : s \in 1..NumConnChans}

Init ==
    /\ ble_l2cap_chan_mem = NULL
    /\ ble_l2cap_chan_pool = ZeroPool
    /\ heap = {}
    /\ chans = [s \in Slots |-> ZeroChan]
    /\ conn = {}
    /\ live = {}
    /\ valid = FALSE
    /\ mbufs = [b \in BufIds |-> NoBuf]
    /\ rx_stack = <<>>
    /\ sent = <<>>
    /\ op = OpRec("none", 0, NoChan)
    /\ held = {}
    /\ codec = NoHdr
    /\ aborted = FALSE

Next ==
    \/ \E addr \in {NULL} \cup MemIds, poolOk \in BOOLEAN :
           ble_l2cap_init(addr, poolOk) /\ UNCHANGED held
    \/ ble_l2cap_chan_alloc /\ UNCHANGED held
    \/ \E chan \in Handles \cup {NoChan, Foreign} :
           ble_l2cap_chan_free(chan) /\ UNCHANGED held
    \/ \E chan \in Handles : ChanWrite(chan) /\ UNCHANGED held

Spec == Init /\ [][Next]_vars

\* The handles callers hold: what alloc returned and free has not taken
\* back.  A re-init does not tell the callers.
HeldAfter ==
    held' = IF op'.name = "alloc" /\ op'.chan # NoChan
            THEN held \cup {op'.chan}
            ELSE IF op'.name = "free" /\ op'.rc = 0
            THEN held \ {op'.chan}
            ELSE held

NextLife ==
    \/ \E addr \in {NULL} \cup MemIds, poolOk \in BOOLEAN :
           ble_l2cap_init(addr, poolOk) /\ HeldAfter
    \/ ble_l2cap_chan_alloc /\ HeldAfter
    \/ \E chan \in Handles \cup {NoChan, Foreign} :
           ble_l2cap_chan_free(chan) /\ HeldAfter

\* The pool with the callers' handles followed across re-initialisation.
SpecLife == Init /\ [][NextLife]_vars

\* A connection with NumConnChans channels, each with a cid and a handler,
\* on a pool that ble_l2cap_init has set up.
InitConn ==
    /\ ble_l2cap_chan_mem = 1
    /\ ble_l2cap_chan_pool =
           [membuf |-> 1, free |-> Iota(NumConnChans + 1, BLE_L2CAP_CHAN_MAX)]
    /\ heap = {1}
    /\ chans = [s \in Slots |->
                   IF s <= NumConnChans
                   THEN [ZeroChan EXCEPT !.blc_cid = ConnCid(s), !.blc_rx_fn = 1]
                   ELSE ZeroChan]
    /\ conn = ConnHandles
    /\ live = ConnHandles
    /\ valid = TRUE
    /\ mbufs = [b \in BufIds |-> NoBuf]
    /\ rx_stack = <<>>
    /\ sent = <<>>
    /\ op = OpRec("none", 0, NoChan)
    /\ held = ConnHandles
    /\ codec = NoHdr
    /\ aborted = FALSE

NextRx ==
    \/ \E full \in BOOLEAN, frame \in RxFrames :
           \E hdh_len \in RxHdhLens(frame) : ble_l2cap_rx(full, hdh_len, frame)
    \/ blc_rx_fn_take
    \/ \E rc \in Statuses, eff \in HandlerEffects :
           ble_l2cap_rx_payload_return(rc, eff)

SpecRx == InitConn /\ [][NextRx]_vars

NextTx ==
    \E chan \in ConnHandles, payload \in TxPayloads, prependOk \in BOOLEAN,
       sendRc \in Statuses : ble_l2cap_tx(chan, payload, prependOk, sendRc)

SpecTx == InitConn /\ [][NextTx]_vars


-----------------------------------------------------------------------------
(* The effective MTU of a channel.                                         *)

\* The bit of blc_flags that says this side has sent its MTU.
BLE_L2CAP_CHAN_F_TXED_MTU == 1

HasFlag(flags, bit) == (flags \div bit) % 2 = 1

Min(a, b) == IF a < b THEN a ELSE b

\* ble_l2cap_chan_mtu(chan): the value computed and whether the assertion
\* on it passes.
ble_l2cap_chan_mtu_result(c) ==
    LET mtu == IF \/ ~HasFlag(c.blc_flags, BLE_L2CAP_CHAN_F_TXED_MTU)
                  \/ c.blc_peer_mtu = 0
               THEN c.blc_default_mtu
               ELSE Min(c.blc_my_mtu, c.blc_peer_mtu)
    IN  [mtu |-> mtu, ok |-> mtu >= c.blc_default_mtu]

ble_l2cap_chan_mtu(chan) ==
    /\ ~aborted
    /\ chan \in live
    /\ LET r == ble_l2cap_chan_mtu_result(chans[chan.slot])
       IN  IF r.ok
           THEN /\ op' = OpRec("mtu", r.mtu, chan)
                /\ UNCHANGED aborted
           ELSE /\ op' = [OpRec("mtu_abort", 0, chan) EXCEPT
                             !.site = "assert_mtu"]
                /\ aborted' = TRUE
    /\ UNCHANGED <<chans, PoolVars, conn, mbufs, rx_stack, sent>>

\* 16-bit MTU values and flag words tried.
MtuSamples == {0, 1, 23, 24, 65535}
FlagSamples == 0..3

\* One channel allocated from a fresh pool, its fields set by its owner.
MtuChan == [mem |-> 1, slot |-> 1]

InitMtu ==
    /\ ble_l2cap_chan_mem = 1
    /\ ble_l2cap_chan_pool = [membuf |-> 1, free |-> Iota(2, BLE_L2CAP_CHAN_MAX)]
    /\ heap = {1}
    /\ \E d \in MtuSamples, my \in MtuSamples, peer \in MtuSamples,
          f \in FlagSamples :
           chans = [s \in Slots |->
                       IF s = 1
                       THEN [ZeroChan EXCEPT !.blc_default_mtu = d,
                                             !.blc_my_mtu = my,
                                             !.blc_peer_mtu = peer,
                                             !.blc_flags = f]
                       ELSE ZeroChan]
    /\ conn = {}
    /\ live = {MtuChan}
    /\ valid = TRUE
    /\ mbufs = [b \in BufIds |-> NoBuf]
    /\ rx_stack = <<>>
    /\ sent = <<>>
    /\ op = OpRec("none", 0, NoChan)
    /\ held = {MtuChan}
    /\ codec = NoHdr
    /\ aborted = FALSE

NextMtu == \E chan \in Handles : ble_l2cap_chan_mtu(chan)

SpecMtu == InitMtu /\ [][NextMtu]_vars

-----------------------------------------------------------------------------
(* The header codec on its own.                                            *)

\* 16-bit values tried: every pair of these bytes.
ByteSamples == {0, 1, 18, 52, 128, 255}
U16Samples == {lo + 256 * hi : lo \in ByteSamples, hi \in ByteSamples}

\* The header ble_l2cap_prepend_hdr writes for (blh_len, blh_cid).
HdrSerialise ==
    /\ codec.stage = "given"
    /\ codec' = [codec EXCEPT !.stage = "wire",
                    !.wire = ble_l2cap_hdr_bytes(codec.blh_len, codec.blh_cid)]
    /\ UNCHANGED <<ble_l2cap_chan_mem, ble_l2cap_chan_pool, heap, chans, conn,
                   live, valid, mbufs, rx_stack, sent, op, held, aborted>>

\* ble_l2cap_parse_hdr on the bytes written.
HdrParse ==
    /\ codec.stage = "wire"
    /\ LET h == ble_l2cap_parse_hdr(codec.wire, 0)
       IN  codec' = [codec EXCEPT !.stage = "parsed", !.rc = h.rc,
                        !.out_len = h.blh_len, !.out_cid = h.blh_cid]
    /\ UNCHANGED <<ble_l2cap_chan_mem, ble_l2cap_chan_pool, heap, chans, conn,
                   live, valid, mbufs, rx_stack, sent, op, held, aborted>>

InitHdr ==
    /\ ble_l2cap_chan_mem = NULL
    /\ ble_l2cap_chan_pool = ZeroPool
    /\ heap = {}
    /\ chans = [s \in Slots |-> ZeroChan]
    /\ conn = {}
    /\ live = {}
    /\ valid = FALSE
    /\ mbufs = [b \in BufIds |-> NoBuf]
    /\ rx_stack = <<>>
    /\ sent = <<>>
    /\ op = OpRec("none", 0, NoChan)
    /\ held = {}
    /\ \E len \in U16Samples, cid \in U16Samples :
           codec = HdrRec("given", len, cid, <<>>, 0, 0, 0)
    /\ aborted = FALSE

NextHdr == HdrSerialise \/ HdrParse

SpecHdr == InitHdr /\ [][NextHdr]_vars

-----------------------------------------------------------------------------
(* Channel pool: properties.                                               *)

NoDuplicates(s) == \A i, j \in 1..Len(s) : s[i] = s[j] => i = j

\* C8: after a successful init, whatever allocs and frees follow, alloc
\* returns a handle exactly when fewer than capacity channels are live; when
\* it returns NULL the pool is unchanged; a returned handle was not live
\* before; the number of live channels never exceeds capacity.
C8_AllocStep ==
    (valid /\ op'.name = "alloc") =>
        /\ (op'.chan # NoChan) <=> (Cardinality(live) < BLE_L2CAP_CHAN_MAX)
        /\ op'.chan = NoChan =>
               /\ ble_l2cap_chan_pool' = ble_l2cap_chan_pool
               /\ live' = live
               /\ chans' = chans
        /\ op'.chan # NoChan =>
               /\ op'.chan \notin live
               /\ live' = live \cup {op'.chan}
        /\ Cardinality(live') <= BLE_L2CAP_CHAN_MAX

C8_AllocIffBelowCapacity == [][C8_AllocStep]_vars

\* C8 witness: the pool is full, alloc has just returned NULL.
C8_Witness ==
    /\ valid
    /\ op.name = "alloc"
    /\ op.chan = NoChan
    /\ Cardinality(live) = BLE_L2CAP_CHAN_MAX

\* C9: freeing a handle that is not live in the pool (freed already, or not
\* a block of it) stops the program at the assertion: the call does not
\* return, the pool is as it was, and the free list never holds a slot twice
\* nor more slots than capacity.
C9_FreeStep ==
    (op'.name = "free" /\ op'.chan # NoChan
        /\ ~IsLive(ble_l2cap_chan_pool, op'.chan)) =>
        /\ aborted'
        /\ ble_l2cap_chan_pool' = ble_l2cap_chan_pool
        /\ NoDuplicates(ble_l2cap_chan_pool'.free)
        /\ Len(ble_l2cap_chan_pool'.free) <= BLE_L2CAP_CHAN_MAX

C9_FreeOfDeadHandleAborts == [][C9_FreeStep]_vars

\* C9 witness: a double free has aborted: the handle's slot is on the free
\* list of the pool it belongs to.
C9_Witness ==
    /\ aborted
    /\ valid
    /\ op.name = "free"
    /\ op.chan.mem = ble_l2cap_chan_pool.membuf
    /\ op.chan.slot \in SeqRange(ble_l2cap_chan_pool.free)

\* C10 (as claimed): a failed init leaves the pool's global state as it was
\* before the call, also when the pool was initialised before the call.
C10_FailedInitStep ==
    (op'.name = "init" /\ op'.rc # 0) =>
        /\ ble_l2cap_chan_mem' = ble_l2cap_chan_mem
        /\ heap' = heap
        /\ ble_l2cap_chan_pool' = ble_l2cap_chan_pool

C10_FailedInitRestoresState == [][C10_FailedInitStep]_vars

\* C11 (as claimed): no handle a caller got from alloc and has not freed
\* refers to released backing storage, and alloc never returns a handle
\* that a caller still holds.
C11_Step ==
    /\ \A h \in held' : h.mem \in heap'
    /\ (op'.name = "alloc" /\ op'.chan # NoChan) => op'.chan \notin held

C11_NoHandleIntoReleasedStorage == [][C11_Step]_vars

\* C12: a successful init, whatever the state before it, leaves exactly one
\* backing allocation, the one ble_l2cap_chan_mem points to, and a pool on
\* it with every slot free once and no live channel; from then on the free
\* slots and the live channels add up to capacity, so that alloc succeeds
\* capacity times and no more.
C12_Step ==
    /\ (op'.name = "init" /\ op'.rc = 0) =>
           /\ ble_l2cap_chan_mem' \in MemIds
           /\ ble_l2cap_chan_pool'.membuf = ble_l2cap_chan_mem'
           /\ Len(ble_l2cap_chan_pool'.free) = BLE_L2CAP_CHAN_MAX
           /\ SeqRange(ble_l2cap_chan_pool'.free) = Slots
           /\ live' = {}
    /\ valid' =>
           /\ heap' = {ble_l2cap_chan_mem'}
           /\ NoDuplicates(ble_l2cap_chan_pool'.free)
           /\ Len(ble_l2cap_chan_pool'.free) + Cardinality(live')
                  = BLE_L2CAP_CHAN_MAX

C12_ReinitIsClean == [][C12_Step]_vars

\* C12 witness: init has succeeded on a pool that had live channels.
C12_Witness ==
    /\ op.name = "init"
    /\ op.rc = 0
    /\ op.prior > 0
    /\ heap = {ble_l2cap_chan_mem}
    /\ Len(ble_l2cap_chan_pool.free) = BLE_L2CAP_CHAN_MAX

\* C16: the channel alloc returns has every field zero, also when the slot
\* held a channel with nonzero fields before.
C16_AllocZeroes ==
    (op.name = "alloc" /\ op.chan # NoChan /\ op.chan.mem \in heap) =>
        chans[op.chan.slot] = ZeroChan

\* C16 witness: alloc has returned a slot that held nonzero fields.
C16_Witness ==
    /\ op.name = "alloc"
    /\ op.chan # NoChan
    /\ op.chan.mem \in heap
    /\ op.prior = 1
    /\ chans[op.chan.slot] = ZeroChan

-----------------------------------------------------------------------------
(* Effective MTU and header codec: properties.                             *)

MtuCalled == op.name \in {"mtu", "mtu_abort"}

\* C13 (as claimed): every call of ble_l2cap_chan_mtu returns, and returns
\* a value that is at least the channel's blc_default_mtu.
C13_MtuAtLeastDefault ==
    MtuCalled =>
        /\ op.name = "mtu"
        /\ op.rc >= chans[op.chan.slot].blc_default_mtu

\* C14 (as claimed): ble_l2cap_chan_mtu returns blc_default_mtu when the
\* TXED_MTU flag is clear or blc_peer_mtu is 0, the smaller of blc_my_mtu
\* and blc_peer_mtu otherwise, and writes no field of the channel.
C14_Step ==
    op'.name \in {"mtu", "mtu_abort"} =>
        LET c == chans[op'.chan.slot]
        IN  /\ op'.name = "mtu"
            /\ chans' = chans
            /\ (c.blc_flags % 2 = 0 \/ c.blc_peer_mtu = 0) =>
                   op'.rc = c.blc_default_mtu
            /\ (c.blc_flags % 2 = 1 /\ c.blc_peer_mtu # 0) =>
                   /\ op'.rc <= c.blc_my_mtu
                   /\ op'.rc <= c.blc_peer_mtu
                   /\ op'.rc \in {c.blc_my_mtu, c.blc_peer_mtu}

C14_MtuValue == [][C14_Step]_vars

\* C15: the 4 bytes written for (blh_len, blh_cid) are the length's low
\* and high byte, then the cid's low and high byte, and parsing them gives
\* back the same blh_len and blh_cid with status 0.
C15_HeaderRoundTrip ==
    /\ codec.stage \in {"wire", "parsed"} =>
           /\ Len(codec.wire) = 4
           /\ codec.wire[1] = codec.blh_len % 256
           /\ codec.wire[2] = codec.blh_len \div 256
           /\ codec.wire[3] = codec.blh_cid % 256
           /\ codec.wire[4] = codec.blh_cid \div 256
    /\ codec.stage = "parsed" =>
           /\ codec.rc = 0
           /\ codec.out_len = codec.blh_len
           /\ codec.out_cid = codec.blh_cid

\* C15 witness: a header whose four bytes all differ has made the round
\* trip.
C15_Witness ==
    /\ codec.stage = "parsed"
    /\ codec.blh_len = 13330
    /\ codec.blh_cid = 65281
    /\ codec.wire = <<18, 52, 1, 255>>
    /\ codec.out_len = 13330
    /\ codec.out_cid = 65281

-----------------------------------------------------------------------------
(* Pipelines: properties.                                                  *)

\* The header fields as the wire format lays them out: bytes 0-1 the
\* length, bytes 2-3 the cid, least significant byte first.
WireLen(frame) == frame[1] + 256 * frame[2]
WireCid(frame) == frame[3] + 256 * frame[4]

TooShort(frame) == Len(frame) < BLE_L2CAP_HDR_SZ
LenMismatch(frame, hdh_len) == WireLen(frame) # hdh_len - BLE_L2CAP_HDR_SZ
Resolves(frame) == \E h \in conn : chans[h.slot].blc_cid = WireCid(frame)
Rejected(frame, hdh_len) ==
    \/ TooShort(frame)
    \/ LenMismatch(frame, hdh_len)
    \/ ~Resolves(frame)

\* A step that is a call of ble_l2cap_rx with a complete frame.
RxCalled == op'.name \in {"rx", "rx_dispatch", "rx_abort"} /\ op'.full

InHandler(s) == \E i \in 1..Len(rx_stack) : rx_stack[i].chan.slot = s

\* C1 (as claimed): when the header was prepended and the transport, which
\* consumes the mbuf, returns a nonzero status, tx returns that status and
\* the framed mbuf has been disposed of exactly once.
C1_SendFailureDisposesOnce ==
    (op.name = "tx" /\ op.prepend_ok /\ op.hrc # 0) =>
        /\ op.rc = op.hrc
        /\ op.frees = 1

\* C2 (as claimed): when the header prepend fails, tx returns ENOMEM, the
\* transport is not called and the payload mbuf has been disposed of exactly
\* once.
C2_PrependFailureDisposesOnce ==
    (op.name = "tx" /\ ~op.prepend_ok) =>
        /\ op.rc = ENOMEM
        /\ sent = <<>>
        /\ op.frees = 1

\* C3 (as claimed): whenever ble_l2cap_rx has returned, on any path, the
\* inbound mbuf has been disposed of.
C3_RxDisposesInboundBuffer ==
    op.name \in {"rx", "rx_return"} => op.frees >= 1

\* C4: a channel's blc_rx_buf is NULL unless a handler invocation of that
\* channel is in progress; when the handler has returned, whatever status
\* it returned and whatever it left in the slot, what it left has been
\* disposed of once and the slot is NULL.
C4_SlotEmptyOutsideHandler ==
    /\ \A s \in Slots : chans[s].blc_rx_buf # NULL => InHandler(s)
    /\ op.name = "rx_return" =>
           /\ chans[op.chan.slot].blc_rx_buf = NULL \/ InHandler(op.chan.slot)
           /\ op.left # "take" => op.left_frees = 1

\* C4 witness: a handler that failed and left another mbuf in the slot has
\* returned, and the slot is empty.
C4_Witness ==
    /\ op.name = "rx_return"
    /\ op.rc # 0
    /\ op.left = "replace"
    /\ op.left_frees = 1
    /\ chans[op.chan.slot].blc_rx_buf = NULL

\* C5: ble_l2cap_rx invokes a handler only for a frame whose header parses,
\* whose length equals the transport's length minus 4 and whose cid is a
\* channel's; for every other frame no handler is invoked and no field of
\* any channel changes.
C5_Step ==
    RxCalled =>
        /\ Rejected(op'.frame, op'.hdh_len) =>
               /\ op'.name = "rx"
               /\ rx_stack' = rx_stack
               /\ chans' = chans
        /\ Len(rx_stack') > Len(rx_stack) => ~Rejected(op'.frame, op'.hdh_len)

C5_HandlerOnlyForValidFrame == [][C5_Step]_vars

\* C5 witness: a frame for a channel of the connection was rejected for its
\* length.
C5_Witness ==
    /\ op.name = "rx"
    /\ op.site = "len"
    /\ ~TooShort(op.frame)
    /\ Resolves(op.frame)

\* C6: a frame of fewer than 4 bytes is rejected with EMSGSIZE by the header
\* parse; otherwise a header length other than the transport's length minus
\* 4 is rejected with EMSGSIZE, whether or not the cid is a channel's;
\* otherwise a cid that is no channel's is rejected with ENOENT.
C6_Step ==
    RxCalled =>
        /\ TooShort(op'.frame) =>
               op'.name = "rx" /\ op'.rc = EMSGSIZE /\ op'.site = "parse"
        /\ (~TooShort(op'.frame) /\ LenMismatch(op'.frame, op'.hdh_len)) =>
               op'.name = "rx" /\ op'.rc = EMSGSIZE /\ op'.site = "len"
        /\ (~TooShort(op'.frame) /\ ~LenMismatch(op'.frame, op'.hdh_len)
                /\ ~Resolves(op'.frame)) =>
               op'.name = "rx" /\ op'.rc = ENOENT /\ op'.site = "find"

C6_RejectionPrecedence == [][C6_Step]_vars

\* C6 witness: a frame with a wrong length and an unknown cid was rejected
\* for its length.
C6_Witness ==
    /\ op.name = "rx"
    /\ op.rc = EMSGSIZE
    /\ ~TooShort(op.frame)
    /\ LenMismatch(op.frame, op.hdh_len)
    /\ ~Resolves(op.frame)

\* C7: for a frame whose length matches and whose cid is a channel's, on a
\* channel whose slot is empty, ble_l2cap_rx invokes one handler,
\* that of the channel with the header's cid, with the slot holding the
\* frame's bytes after the first 4; no other channel changes.
C7_Step ==
    (RxCalled /\ ~Rejected(op'.frame, op'.hdh_len)) =>
        \E h \in conn :
            /\ chans[h.slot].blc_cid = WireCid(op'.frame)
            /\ chans[h.slot].blc_rx_buf = NULL =>
                   /\ op'.name = "rx_dispatch"
                   /\ op'.chan = h
                   /\ chans'[h.slot].blc_rx_buf # NULL
                   /\ rx_stack' = Append(rx_stack,
                          [chan |-> h, om |-> chans'[h.slot].blc_rx_buf])
                   /\ mbufs'[chans'[h.slot].blc_rx_buf].data =
                          SubSeq(op'.frame, BLE_L2CAP_HDR_SZ + 1,
                                 Len(op'.frame))
                   /\ \A s \in Slots \ {h.slot} : chans'[s] = chans[s]

C7_DispatchesPayloadOnce == [][C7_Step]_vars

\* C7 witness: frame 02 00 04 00 AA BB has been dispatched to the channel
\* with cid 4, whose slot holds AA BB.
C7_Witness ==
    /\ op.name = "rx_dispatch"
    /\ op.frame = <<2, 0, 4, 0, 170, 187>>
    /\ chans[op.chan.slot].blc_cid = 4
    /\ Len(rx_stack) = 1
    /\ mbufs[chans[op.chan.slot].blc_rx_buf].data = <<170, 187>>

\* C17 (as claimed): no two handler invocations of one channel are in
\* progress at once, and a call of ble_l2cap_rx that finds a dispatch of its
\* channel in progress stops at the assertion with the slot as it was.
C17_Step ==
    /\ \A i, j \in 1..Len(rx_stack') :
           rx_stack'[i].chan = rx_stack'[j].chan => i = j
    /\ (RxCalled /\ ~Rejected(op'.frame, op'.hdh_len)) =>
           \A h \in conn :
               (chans[h.slot].blc_cid = WireCid(op'.frame)
                    /\ InHandler(h.slot)) =>
                   /\ op'.name = "rx_abort"
                   /\ op'.site = "assert_slot"
                   /\ chans' = chans
                   /\ mbufs' = mbufs

C17_DispatchesAreSequential == [][C17_Step]_vars

\* C18: a call of ble_l2cap_rx whose packet boundary flag is not that of a
\* complete frame stops at the assertion: no status is returned, the mbuf
\* is neither read nor trimmed, no channel is looked up or changed and no
\* handler is invoked, whatever the frame holds.
C18_Step ==
    (op'.name \in {"rx", "rx_dispatch", "rx_abort"} /\ ~op'.full) =>
        /\ op'.name = "rx_abort"
        /\ op'.site = "assert_pb"
        /\ aborted'
        /\ UNCHANGED <<mbufs, chans, rx_stack, conn>>

C18_FragmentAborts == [][C18_Step]_vars

\* C18 witness: a frame that a handler would have been invoked for arrived
\* marked as a fragment, and the program has stopped at the assertion.
C18_Witness ==
    /\ aborted
    /\ op.name = "rx_abort"
    /\ op.site = "assert_pb"
    /\ ~op.full
    /\ ~Rejected(op.frame, op.hdh_len)
    /\ rx_stack = <<>>

\* C19: when a handler has returned, ble_l2cap_rx has returned the
\* handler's status, zero or not, and by then the mbuf it dispatched has
\* been disposed of once and the channel's slot is NULL.
C19_ReturnsHandlerStatus ==
    op.name = "rx_return" =>
        /\ op.rc = op.hrc
        /\ op.frees = 1
        /\ chans[op.chan.slot].blc_rx_buf = NULL

\* C19 witness: a handler returned ENOMEM and so did ble_l2cap_rx, with
\* the slot cleaned.
C19_Witness ==
    /\ op.name = "rx_return"
    /\ op.hrc = ENOMEM
    /\ op.rc = ENOMEM
    /\ op.frees = 1
    /\ chans[op.chan.slot].blc_rx_buf = NULL

\* C20: when ble_l2cap_tx returns 0 the transport was handed one mbuf:
\* 4 header bytes, whose length field is the payload's size and whose cid
\* is the channel's, then the payload's bytes as they were; no field of any
\* channel has changed; and ble_l2cap_rx given that frame finds the same
\* channel and hands its handler the same payload.
C20_Step ==
    (op'.name = "tx" /\ op'.rc = 0) =>
        LET payload == op'.frame
            cid == chans[op'.chan.slot].blc_cid
            frame == sent'[1]
            back == ble_l2cap_rx_decide(frame, Len(frame), conn, chans')
        IN  /\ Len(sent') = 1
            /\ Len(frame) = BLE_L2CAP_HDR_SZ + Len(payload)
            /\ WireLen(frame) = Len(payload)
            /\ WireCid(frame) = cid
            /\ SubSeq(frame, BLE_L2CAP_HDR_SZ + 1, Len(frame)) = payload
            /\ chans' = chans
            /\ back.site = "payload"
            /\ back.chan = op'.chan
            /\ back.data = payload

C20_TxFramesPayload == [][C20_Step]_vars

\* C20 witness: payload AA BB was sent on the channel with cid 5 as
\* 02 00 05 00 AA BB.
C20_Witness ==
    /\ op.name = "tx"
    /\ op.rc = 0
    /\ op.frame = <<170, 187>>
    /\ chans[op.chan.slot].blc_cid = 5
    /\ sent = << <<2, 0, 5, 0, 170, 187>> >>

====
